---- MODULE Spec2Model ----
(***************************************************************************)
(* The row loop of archiveItems.py: for every inventory row flagged for    *)
(* archiving, create the owner/item folders, fetch the remote item,        *)
(* archive it by the strategy of its declared type and delete it when the  *)
(* delete flag says so.  Every remote call is one step of the model; a     *)
(* call may succeed or raise.  An exception no handler of the script       *)
(* catches ends the run ("aborted").                                       *)
(***************************************************************************)
EXTENDS Integers, Sequences, FiniteSets, TLC

VARIABLES
    Inventory,      \* the sheet: row number -> row record (never written)
    remote,         \* ids of the items that exist in the remote service
    exported,       \* ids whose server-side export item was created
    dirs,           \* folders under data_dmp: <<owner>> and <<owner, id>>
    files,          \* files under data_dmp: <<owner, id, name>> -> content
    sweep,          \* number of the current run of the script
    i,              \* the loop variable: row being processed
    pc,             \* position of the run inside the loop body
    Source_item,    \* the item handle held by the current row, or NoItem
    rel_queue,      \* related data items of a Form still to download
    rel_items_data,     \* what related_items("Survey2Data") last returned
    rel_items_services, \* what related_items("Survey2Service") last returned
    trace,          \* history: every folder creation, remote call and write
    rowState,       \* history: outcome of each row in the current run
    ended           \* history: how each finished run ended

vars == <<Inventory, remote, exported, dirs, files, sweep, i, pc, Source_item,
          rel_queue, rel_items_data, rel_items_services, trace, rowState, ended>>

-----------------------------------------------------------------------------
(* Bounds of the model *)

MaxSweeps == 2          \* runs of the script over the same archive root
MaxRelated == 2         \* related items a Form may have, per relation type

-----------------------------------------------------------------------------
(* Text values.  A flag cell is a sequence of characters, so that lower()   *)
(* and == are computed and not assumed.                                     *)

None == <<"None">>      \* an empty cell (openpyxl gives None)
NoItem == "NoItem"      \* content.get() found nothing

yes == <<"y", "e", "s">>
Yes == <<"Y", "e", "s">>
no == <<"n", "o">>

archiveFlag == yes
deleteFlag == yes

LowerChar(c) ==
    CASE c = "Y" -> "y"
      [] c = "E" -> "e"
      [] c = "S" -> "s"
      [] c = "N" -> "n"
      [] c = "O" -> "o"
      [] OTHER -> c

Lower(s) == [k \in DOMAIN s |-> LowerChar(s[k])]

lst_file_types == {"File Geodatabase", "Service Definition", "Shapefile", "CSV",
                   "Mobile Map Package", "Microsoft Word", "Project Package",
                   "Notebook", "PDF", "CSV Collection", "Tile Package"}
lst_export_services == {"Feature Service"}
lst_other_services == {"Image Service", "Scene Service"}
lst_data_apps == {"Web Map", "Web Scene", "Web Mapping Application", "Dashboard",
                  "Feature Collection"}
lst_other_apps == {"Form", "Web Experience", "StoryMap"}


(* The type cell matched without regard to case *)
Canon(t) ==
    CASE t = "form" -> "Form"
      [] t = "Feature service" -> "Feature Service"
      [] OTHER -> t

ClassifyFoldCase(t) ==
    IF Canon(t) \in lst_file_types THEN "FileAsset"
    ELSE IF Canon(t) \in lst_data_apps THEN "DataApplication"
    ELSE IF Canon(t) \in lst_export_services THEN "ExportableService"
    ELSE IF Canon(t) \in lst_other_services THEN "NonExportableService"
    ELSE IF Canon(t) \in lst_other_apps THEN "OtherApplication"
    ELSE "Unclassified"

(* The six strategy classes, by the chain of membership tests of the loop   *)
(* body, in the order the code makes them.                                  *)
Classify(t) ==
    IF t \in lst_file_types THEN "FileAsset"
    ELSE IF t \in lst_data_apps THEN "DataApplication"
    ELSE IF t \in lst_export_services THEN "ExportableService"
    ELSE IF t \in lst_other_services THEN "NonExportableService"
    ELSE IF t \in lst_other_apps THEN "OtherApplication"
    ELSE "Unclassified"

-----------------------------------------------------------------------------
(* The inputs: the sheet and the remote service at the start                *)

inventory_row == 3      \* Inventory.max_row: header row 1, data rows 2..3
RowNumbers == 2..inventory_row

Ids == {"i1", "i2"}
Owners == {"u1"}
Types == {"PDF", "Web Map", "Feature Service", "Image Service", "Form",
          "StoryMap", "form"}
ArchiveFlags == {None, yes, Yes, no}
DeleteFlags == {None, yes, Yes}
RelDataIds == {"d1", "d2"}
RelServiceIds == {"s1", "s2"}

(* The related items are items of the remote service themselves *)
RelatedIds == RelDataIds \cup RelServiceIds

Rows == [id : Ids, owner : Owners, type : Types,
         archive : ArchiveFlags, delete : DeleteFlags]

(* What related_items() can return: a list of at most MaxRelated items, each
   related item once *)
RelLists(ids) ==
    {l \in UNION {[1..n -> ids] : n \in 0..MaxRelated} :
        \A a, b \in DOMAIN l : l[a] = l[b] => a = b}

-----------------------------------------------------------------------------
(* Paths, documents and the decisions of the loop body                      *)

user_folder(r) == <<r.owner>>
item_folder(r) == <<r.owner, r.id>>
FileIn(r, name) == <<r.owner, r.id, name>>

Title(id) == <<"title", id>>
Dumps(x) == <<"json", x>>

(* open(path, "a"); json.dump(doc, f): append to the file, create it if absent *)
WriteAppend(fls, path, doc) ==
    IF path \in DOMAIN fls
    THEN [fls EXCEPT ![path] = Append(@, doc)]
    ELSE fls @@ (path :> <<doc>>)

(* item.download(folder): the payload lands in the folder under the item's name *)
WriteDownload(fls, path, doc) ==
    IF path \in DOMAIN fls
    THEN [fls EXCEPT ![path] = <<doc>>]
    ELSE fls @@ (path :> <<doc>>)

error_data(r, msg) ==
    [itemname |-> Title(r.id), itemid |-> r.id, download_error |-> msg]

(* The error document joined to the owner folder instead of the item folder *)
ErrorFileInOwnerFolder(r) == <<r.owner, "", <<r.type, "_error.json">>>>

ErrorFile(r) == FileIn(r, <<r.type, "_error.json">>)
DataFile(r) == FileIn(r, <<r.type, ".json">>)
RelFile(r) == FileIn(r, <<r.type, "_rel_services.json">>)
PayloadFile(r, id) == FileIn(r, <<id, "payload">>)
ExportFile(r) == FileIn(r, <<r.id, "exported File Geodatabase">>)
ResourceFile(r) == FileIn(r, <<r.id, "resources">>)

UnsupportedMsg(cls) ==
    IF cls = "NonExportableService"
    THEN "Unable to export this format. Please find source files for this service"
    ELSE "Export operation not supported for this data type"

(* The flag test with its second condition lost: any filled cell archives *)
FlaggedWhenFilled(r) == r.archive # None

(* lines 137-139: the cell is not None and its lower() equals archiveFlag *)
FlaggedForArchive(r) ==
    /\ r.archive # None
    /\ Lower(r.archive) = archiveFlag

(* The folder test lost: a row is processed whether its folder exists or not *)
AlreadyProcessedNever(r, ds) == FALSE

(* The folder test letting a row with an error document be tried again *)
AlreadyProcessedUnlessError(r, ds) ==
    /\ item_folder(r) \in ds
    /\ ErrorFile(r) \notin DOMAIN files

(* The folder test asking for an archived file as well *)
AlreadyProcessedWhenFilled(r, ds) ==
    /\ item_folder(r) \in ds
    /\ \E p \in DOMAIN files : p[1] = r.owner /\ p[2] = r.id

(* line 144, negated: the item folder is already there *)
AlreadyProcessed(r, ds) == item_folder(r) \in ds

(* The delete flag compared the way the archive flag is *)
DeleteIndicatedAnyCase(r) ==
    /\ r.delete # None
    /\ Lower(r.delete) = deleteFlag

(* lines 153, 171, 192, 257: the cell equals deleteFlag *)
DeleteIndicated(r) == r.delete = deleteFlag

(* The file branch with its delete block ahead of the download *)
StrategyEntryDeleteFirst(cls) ==
    CASE cls = "FileAsset" -> "delete"
      [] cls = "DataApplication" -> "get_data"
      [] cls = "ExportableService" -> "export"
      [] cls = "NonExportableService" -> "record"
      [] cls = "OtherApplication" -> "app_get_data"
      [] OTHER -> "record"

(* The two branches without an export path sent to the export and download *)
StrategyEntryExportAll(cls) ==
    CASE cls = "FileAsset" -> "download"
      [] cls = "DataApplication" -> "get_data"
      [] cls = "ExportableService" -> "export"
      [] cls = "NonExportableService" -> "export"
      [] cls = "OtherApplication" -> "app_get_data"
      [] OTHER -> "download"

(* The first step of each strategy once the item is found; "record" writes  *)
(* the unsupported-type document and ends the row.                          *)
StrategyEntry(cls) ==
    CASE cls = "FileAsset" -> "download"
      [] cls = "DataApplication" -> "get_data"
      [] cls = "ExportableService" -> "export"
      [] cls = "NonExportableService" -> "record"
      [] cls = "OtherApplication" -> "app_get_data"
      [] OTHER -> "record"

(* A missing item recorded like an unsupported type *)
OnItemMissingRecorded(r, fls) ==
    WriteAppend(fls, ErrorFile(r), Dumps(error_data(r, "item not found")))

(* What the row does when content.get() returns None: nothing is written *)
OnItemMissing(r, fls) == fls

(* The delete left to the export-service handler, which writes a document *)
OnDeleteErrorRecorded(r, fls) ==
    WriteAppend(fls, ErrorFile(r), Dumps(error_data(r, "delete failed")))

(* What the handler of a failed delete leaves on disk: it only logs *)
OnDeleteError(r, fls) == fls

(* The delete block placed after the handler instead of inside the try *)
AfterExportErrorDelete(r) == "delete"

(* Where the export-service handler (lines 197-208) leaves the row *)
AfterExportError(r) == "next"

-----------------------------------------------------------------------------
(* Initial states: any sheet over the row domain, any set of remote items,  *)
(* an empty archive root, the first run about to read row 2.                *)

Init ==
    /\ Inventory \in [RowNumbers -> Rows]
    /\ remote \in {S \cup RelatedIds : S \in SUBSET Ids}
    /\ exported = {}
    /\ dirs = {}
    /\ files = <<>>
    /\ sweep = 1
    /\ i = 2
    /\ pc = "row"
    /\ Source_item = NoItem
    /\ rel_queue = <<>>
    /\ rel_items_data = <<>>
    /\ rel_items_services = <<>>
    /\ trace = <<>>
    /\ rowState = [n \in RowNumbers |-> "Unvisited"]
    /\ ended = <<>>

(* The sheets of the repeated runs: the same columns, two values per flag; *)
(* the ids are interchangeable, so row 2 takes the first.                   *)
RowsResume == {r \in Rows : r.archive \in {Yes, no} /\ r.delete \in {yes, Yes}}

InitResume ==
    /\ Init
    /\ \A n \in RowNumbers : Inventory[n] \in RowsResume
    /\ Inventory[2].id = "i1"

-----------------------------------------------------------------------------
(* Bookkeeping shared by the steps                                          *)

Ev(op, ok) == [s |-> sweep, r |-> i, op |-> op, ok |-> ok]

(* The loop body is over: for advances to the next row, or the script ends *)
RowDone(state) ==
    /\ rowState' = [rowState EXCEPT ![i] = state]
    /\ i' = i + 1
    /\ pc' = IF i < inventory_row THEN "row" ELSE "done"
    /\ ended' = IF i < inventory_row THEN ended ELSE Append(ended, "done")

(* An exception nothing catches: the interpreter prints it and exits *)
Uncaught ==
    /\ pc' = "aborted"
    /\ ended' = Append(ended, "aborted")
    /\ UNCHANGED <<i, rowState>>

(* The delete block lost: the row ends when its archival step does *)
ThenDeleteNever(r) == RowDone("ArchivedOnly")

(* The archival step is complete: the "delete, if indicated" block *)
ThenDelete(r) ==
    IF DeleteIndicated(r)
    THEN /\ pc' = "delete"
         /\ UNCHANGED <<i, rowState, ended>>
    ELSE RowDone("ArchivedOnly")

-----------------------------------------------------------------------------
(* lines 127-145: read the row, test the archive flag, resolve the folders  *)

VisitRow ==
    /\ pc = "row"
    /\ LET r == Inventory[i]
           mk_owner == IF user_folder(r) \in dirs THEN <<>> ELSE <<Ev("mkdir_owner", TRUE)>>
           dirs1 == dirs \cup {user_folder(r)}
       IN IF ~FlaggedForArchive(r)
          THEN /\ RowDone("Skipped-NoFlag")
               /\ UNCHANGED <<dirs, trace>>
          ELSE IF AlreadyProcessed(r, dirs1)
          THEN /\ RowDone("Skipped-AlreadyProcessed")
               /\ dirs' = dirs1
               /\ trace' = trace \o mk_owner
          ELSE /\ dirs' = dirs1 \cup {item_folder(r)}
               /\ trace' = trace \o mk_owner \o <<Ev("mkdir_item", TRUE)>>
               /\ pc' = "get"
               /\ UNCHANGED <<i, rowState, ended>>
    /\ UNCHANGED <<Inventory, remote, exported, files, sweep, Source_item,
                   rel_queue>>
    /\ UNCHANGED <<rel_items_data, rel_items_services>>

(* lines 146-148 and the same two lines of every branch: content.get(), and *)
(* for the two classes without an export path the error document.           *)
GetItem ==
    /\ pc = "get"
    /\ LET r == Inventory[i]
           cls == Classify(r.type)
       IN /\ trace' = Append(trace, Ev("get", r.id \in remote))
          /\ IF r.id \notin remote
             THEN /\ Source_item' = NoItem
                  /\ files' = OnItemMissing(r, files)
                  /\ RowDone("Skipped-ItemMissing")
             ELSE /\ Source_item' = r.id
                  /\ IF StrategyEntry(cls) = "record"
                     THEN /\ files' = WriteAppend(files, ErrorFile(r),
                                         Dumps(error_data(r, UnsupportedMsg(cls))))
                          /\ RowDone("UnsupportedTypeRecorded")
                     ELSE /\ pc' = StrategyEntry(cls)
                          /\ rowState' = [rowState EXCEPT ![i] = "Dispatched"]
                          /\ UNCHANGED <<files, i, ended>>
    /\ UNCHANGED <<Inventory, remote, exported, dirs, sweep, rel_queue>>
    /\ UNCHANGED <<rel_items_data, rel_items_services>>

(* line 150: Source_item.download(item_folder), outside any try *)
Download ==
    /\ pc = "download"
    /\ LET r == Inventory[i]
       IN /\ \E ok \in BOOLEAN :
             /\ trace' = Append(trace, Ev("download", ok))
             /\ IF ok
                THEN /\ files' = WriteDownload(files, PayloadFile(r, Source_item),
                                               <<"payload", Source_item>>)
                     /\ ThenDelete(r)
                ELSE /\ Uncaught
                     /\ UNCHANGED files
    /\ UNCHANGED <<Inventory, remote, exported, dirs, sweep, Source_item,
                   rel_queue>>
    /\ UNCHANGED <<rel_items_data, rel_items_services>>

(* lines 163-168: get_data(), then the data document is written *)
GetData ==
    /\ pc = "get_data"
    /\ LET r == Inventory[i]
       IN /\ \E ok \in BOOLEAN :
             /\ trace' = Append(trace, Ev("get_data", ok))
             /\ IF ok
                THEN /\ files' = WriteAppend(files, DataFile(r),
                                             Dumps(Dumps(<<"data", Source_item>>)))
                     /\ ThenDelete(r)
                ELSE /\ Uncaught
                     /\ UNCHANGED files
    /\ UNCHANGED <<Inventory, remote, exported, dirs, sweep, Source_item,
                   rel_queue>>
    /\ UNCHANGED <<rel_items_data, rel_items_services>>

(* lines 197-208: the handler of the export-service try block writes the    *)
(* error document; the loop then goes on.                                   *)
ExportError(r, msg) ==
    /\ files' = WriteAppend(files, ErrorFile(r), Dumps(error_data(r, msg)))
    /\ IF AfterExportError(r) = "next"
       THEN RowDone("ArchivedWithExportError")
       ELSE /\ pc' = AfterExportError(r)
            /\ UNCHANGED <<i, rowState, ended>>

(* line 182: Source_item.export(id, 'File Geodatabase', wait=True) *)
Export ==
    /\ pc = "export"
    /\ LET r == Inventory[i]
       IN /\ \E ok \in BOOLEAN :
             /\ trace' = Append(trace, Ev("export", ok))
             /\ IF ok
                THEN /\ exported' = exported \cup {Source_item}
                     /\ pc' = "export_download"
                     /\ UNCHANGED <<files, i, rowState, ended>>
                ELSE /\ ExportError(r, "export failed")
                     /\ UNCHANGED exported
    /\ UNCHANGED <<Inventory, remote, dirs, sweep, Source_item, rel_queue>>
    /\ UNCHANGED <<rel_items_data, rel_items_services>>

(* line 187: exported_folder_item.download(save_path=item_folder) *)
ExportDownload ==
    /\ pc = "export_download"
    /\ LET r == Inventory[i]
       IN /\ \E ok \in BOOLEAN :
             /\ trace' = Append(trace, Ev("export_download", ok))
             /\ IF ok
                THEN /\ files' = WriteDownload(files, ExportFile(r),
                                               <<"exported", Source_item>>)
                     /\ ThenDelete(r)
                ELSE ExportError(r, "download failed")
    /\ UNCHANGED <<Inventory, remote, exported, dirs, sweep, Source_item,
                   rel_queue>>
    /\ UNCHANGED <<rel_items_data, rel_items_services>>

(* lines 229-235, 253: get_data() of an application of the other-apps list, *)
(* the data document, then the choice of the supplemental export.           *)
AppGetData ==
    /\ pc = "app_get_data"
    /\ LET r == Inventory[i]
       IN /\ \E ok \in BOOLEAN :
             /\ trace' = Append(trace, Ev("get_data", ok))
             /\ IF ok
                THEN /\ files' = WriteAppend(files, DataFile(r),
                                             Dumps(Dumps(<<"data", Source_item>>)))
                     /\ pc' = IF r.type = "Form" THEN "rel_data" ELSE "res_export"
                     /\ UNCHANGED <<i, rowState, ended>>
                ELSE /\ Uncaught
                     /\ UNCHANGED files
    /\ UNCHANGED <<Inventory, remote, exported, dirs, sweep, Source_item,
                   rel_queue>>
    /\ UNCHANGED <<rel_items_data, rel_items_services>>

(* line 238: related_items("Survey2Data", "forward") *)
RelData ==
    /\ pc = "rel_data"
    /\ \/ \E lst \in RelLists(RelDataIds) :
            /\ trace' = Append(trace, Ev("related_data", TRUE))
            /\ rel_items_data' = lst
            /\ rel_queue' = lst
            /\ pc' = IF lst = <<>> THEN "rel_services" ELSE "rel_download"
            /\ UNCHANGED <<i, rowState, ended>>
       \/ /\ trace' = Append(trace, Ev("related_data", FALSE))
          /\ Uncaught
          /\ UNCHANGED <<rel_queue, rel_items_data>>
    /\ UNCHANGED <<Inventory, remote, exported, dirs, files, sweep, Source_item,
                   rel_items_services>>

(* lines 239-241: one turn of the loop that downloads the related data items *)
RelDownload ==
    /\ pc = "rel_download"
    /\ LET r == Inventory[i]
           rel_item == Head(rel_queue)
       IN /\ \E ok \in BOOLEAN :
             /\ trace' = Append(trace, Ev("rel_download", ok))
             /\ IF ok
                THEN /\ files' = WriteDownload(files, PayloadFile(r, rel_item),
                                               <<"payload", rel_item>>)
                     /\ rel_queue' = Tail(rel_queue)
                     /\ pc' = IF Tail(rel_queue) = <<>> THEN "rel_services"
                              ELSE "rel_download"
                     /\ UNCHANGED <<i, rowState, ended>>
                ELSE /\ Uncaught
                     /\ UNCHANGED <<files, rel_queue>>
    /\ UNCHANGED <<Inventory, remote, exported, dirs, sweep, Source_item>>
    /\ UNCHANGED <<rel_items_data, rel_items_services>>

Url(id) == <<"url", id>>

(* The keys without str(ind): every service writes the same two keys *)
dict_relationsKeyedByLabel(svcs) ==
    [k \in (IF svcs = <<>> THEN {} ELSE {1}) \X
            {"relation ITEM ID for this form is",
             "relation ITEM URL for this form is"} |->
        IF k[2] = "relation ITEM ID for this form is"
        THEN <<"id", svcs[Len(svcs)]>>
        ELSE Url(svcs[Len(svcs)])]

(* lines 236-247: two entries per related service, keyed by its index *)
dict_relations(svcs) ==
    [k \in (1..Len(svcs)) \X {"relation ITEM ID for this form is",
                              "relation ITEM URL for this form is"} |->
        IF k[2] = "relation ITEM ID for this form is"
        THEN <<"id", svcs[k[1]]>>
        ELSE Url(svcs[k[1]])]

(* lines 242-252: related_items("Survey2Service", "forward"), the manifest *)
RelServices ==
    /\ pc = "rel_services"
    /\ LET r == Inventory[i]
       IN \/ \E svcs \in RelLists(RelServiceIds) :
                  /\ trace' = Append(trace, Ev("related_services", TRUE))
                  /\ rel_items_services' = svcs
                  /\ files' = WriteAppend(files, RelFile(r),
                                          Dumps(dict_relations(svcs)))
                  /\ ThenDelete(r)
          \/ /\ trace' = Append(trace, Ev("related_services", FALSE))
             /\ Uncaught
             /\ UNCHANGED <<files, rel_items_services>>
    /\ UNCHANGED <<Inventory, remote, exported, dirs, sweep, Source_item,
                   rel_queue>>
    /\ UNCHANGED rel_items_data

(* line 254: Source_item.resources.export(item_folder) *)
ResExport ==
    /\ pc = "res_export"
    /\ LET r == Inventory[i]
       IN /\ \E ok \in BOOLEAN :
             /\ trace' = Append(trace, Ev("resources_export", ok))
             /\ IF ok
                THEN /\ files' = WriteDownload(files, ResourceFile(r),
                                               <<"resources", Source_item>>)
                     /\ ThenDelete(r)
                ELSE /\ Uncaught
                     /\ UNCHANGED files
    /\ UNCHANGED <<Inventory, remote, exported, dirs, sweep, Source_item,
                   rel_queue>>
    /\ UNCHANGED <<rel_items_data, rel_items_services>>

(* lines 152-156, 170-174, 191-195, 256-260: Source_item.delete() inside    *)
(* its own try; the handler logs and the loop goes on.                      *)
Delete ==
    /\ pc = "delete"
    /\ LET r == Inventory[i]
       IN /\ \E ok \in BOOLEAN :
             /\ trace' = Append(trace, Ev("delete", ok))
             /\ IF ok
                THEN /\ remote' = remote \ {Source_item}
                     /\ RowDone("ArchivedAndDeleted")
                     /\ UNCHANGED files
                ELSE /\ files' = OnDeleteError(r, files)
                     /\ RowDone("ArchivedOnly")
                     /\ UNCHANGED remote
    /\ UNCHANGED <<Inventory, exported, dirs, sweep, Source_item, rel_queue>>
    /\ UNCHANGED <<rel_items_data, rel_items_services>>

-----------------------------------------------------------------------------
(* The environment: the operator stops the script, and runs it again        *)

Running == pc \notin {"done", "aborted", "interrupted", "exited"}

Interrupt ==
    /\ Running
    /\ pc' = "interrupted"
    /\ ended' = Append(ended, "interrupted")
    /\ UNCHANGED <<Inventory, remote, exported, dirs, files, sweep, i,
                   Source_item, rel_queue, trace, rowState>>
    /\ UNCHANGED <<rel_items_data, rel_items_services>>

(* A new process: lines 27-127 again, over the same sheet and archive root *)
StartSweep ==
    /\ ~Running
    /\ sweep < MaxSweeps
    /\ sweep' = sweep + 1
    /\ i' = 2
    /\ pc' = "row"
    /\ Source_item' = NoItem
    /\ rel_queue' = <<>>
    /\ rel_items_data' = <<>>
    /\ rel_items_services' = <<>>
    /\ rowState' = [n \in RowNumbers |-> "Unvisited"]
    /\ UNCHANGED <<Inventory, remote, exported, dirs, files, trace, ended>>

-----------------------------------------------------------------------------
(* lines 89-124: what the script does before its first row                  *)

sourceUserId == "uid1"
UserIds == {"uid1", "uid2"}

(* What json.loads(responseSource.text) can be: the user, or an error body *)
VerifyResponses == [id : UserIds] \cup [error : {"invalid token"}]

(* A step before the loop: no row is current *)
Pre(op, ok) == [s |-> sweep, r |-> 0, op |-> op, ok |-> ok]

(* sys.exit(0) *)
Exit ==
    /\ pc' = "exited"
    /\ ended' = Append(ended, "exited")

(* An exception raised before the loop *)
PreUncaught ==
    /\ pc' = "aborted"
    /\ ended' = Append(ended, "aborted")

(* The portal answered, and with the configured user id *)
SameUser(json_source_response) ==
    /\ "error" \notin DOMAIN json_source_response
    /\ json_source_response.id = sourceUserId

VerifyOutcomeLenient(json_source_response) == "load"

(* lines 107-116: the branch taken on the response.  Line 115 adds a dict  *)
(* to a str, so the error branch raises TypeError before its sys.exit(0).   *)
VerifyOutcome(json_source_response) ==
    IF "error" \notin DOMAIN json_source_response
    THEN IF json_source_response.id = sourceUserId THEN "load" ELSE "exited"
    ELSE "aborted"

(* lines 89-93: os.path.exists(inputExcelFile) *)
CheckInventoryFile ==
    /\ pc = "check_file"
    /\ \E exists \in BOOLEAN :
         /\ trace' = Append(trace, Pre("path_exists", exists))
         /\ IF exists
            THEN /\ pc' = "connect"
                 /\ UNCHANGED ended
            ELSE Exit
    /\ UNCHANGED <<Inventory, remote, exported, dirs, files, sweep, i,
                   Source_item, rel_queue, rel_items_data, rel_items_services,
                   rowState>>

(* lines 97-100: GIS(...) logs in, or raises *)
Connect ==
    /\ pc = "connect"
    /\ \E ok \in BOOLEAN :
         /\ trace' = Append(trace, Pre("connect", ok))
         /\ IF ok
            THEN /\ pc' = "verify"
                 /\ UNCHANGED ended
            ELSE PreUncaught
    /\ UNCHANGED <<Inventory, remote, exported, dirs, files, sweep, i,
                   Source_item, rel_queue, rel_items_data, rel_items_services,
                   rowState>>

(* lines 103-116: ask the portal who the token belongs to *)
Verify ==
    /\ pc = "verify"
    /\ \/ \E json_source_response \in VerifyResponses :
            LET out == VerifyOutcome(json_source_response)
            IN /\ trace' = Append(trace, Pre("verify", SameUser(json_source_response)))
               /\ CASE out = "load" -> pc' = "load" /\ UNCHANGED ended
                    [] out = "exited" -> Exit
                    [] OTHER -> PreUncaught
       \/ /\ trace' = Append(trace, Pre("verify", FALSE))
          /\ PreUncaught
    /\ UNCHANGED <<Inventory, remote, exported, dirs, files, sweep, i,
                   Source_item, rel_queue, rel_items_data, rel_items_services,
                   rowState>>

(* lines 122-124: open the workbook and the sheet, or raise *)
LoadWorkbook ==
    /\ pc = "load"
    /\ \E ok \in BOOLEAN :
         /\ trace' = Append(trace, Pre("load_workbook", ok))
         /\ IF ok
            THEN /\ pc' = "row"
                 /\ UNCHANGED ended
            ELSE PreUncaught
    /\ UNCHANGED <<Inventory, remote, exported, dirs, files, sweep, i,
                   Source_item, rel_queue, rel_items_data, rel_items_services,
                   rowState>>

(* The script from line 89: the sheets of InitResume, not yet opened *)
InitStart ==
    /\ Inventory \in [RowNumbers -> RowsResume]
    /\ Inventory[2].id = "i1"
    /\ remote \in {S \cup RelatedIds : S \in SUBSET Ids}
    /\ exported = {}
    /\ dirs = {}
    /\ files = <<>>
    /\ sweep = 1
    /\ i = 2
    /\ pc = "check_file"
    /\ Source_item = NoItem
    /\ rel_queue = <<>>
    /\ rel_items_data = <<>>
    /\ rel_items_services = <<>>
    /\ trace = <<>>
    /\ rowState = [n \in RowNumbers |-> "Unvisited"]
    /\ ended = <<>>

(* Between two runs somebody publishes an item under an id of the sheet *)
ItemAppears ==
    /\ ~Running
    /\ sweep < MaxSweeps
    /\ \E id \in Ids \ remote : remote' = remote \cup {id}
    /\ UNCHANGED <<Inventory, exported, dirs, files, sweep, i, pc, Source_item,
                   rel_queue, rel_items_data, rel_items_services, trace,
                   rowState, ended>>

Next ==
    \/ VisitRow
    \/ GetItem
    \/ Download
    \/ GetData
    \/ Export
    \/ ExportDownload
    \/ AppGetData
    \/ RelData
    \/ RelDownload
    \/ RelServices
    \/ ResExport
    \/ Delete

(* One run of the script, from its first row to its end *)
Spec == Init /\ [][Next]_vars

(* Runs of the script one after the other over the same sheet and archive   *)
(* root, any of which the operator may stop.                                *)
NextResume ==
    \/ Next
    \/ Interrupt
    \/ StartSweep
    \/ ItemAppears

SpecResume == InitResume /\ [][NextResume]_vars

(* One run of the script with its start-up checks *)
NextStart ==
    \/ CheckInventoryFile
    \/ Connect
    \/ Verify
    \/ LoadWorkbook
    \/ Next

SpecStart == InitStart /\ [][NextStart]_vars

-----------------------------------------------------------------------------
(* Vocabulary of the properties                                             *)

Events == DOMAIN trace
RowOf(k) == Inventory[trace[k].r]

(* k and j are events of the same visit of the same row *)
SameVisit(k, j) == trace[k].s = trace[j].s /\ trace[k].r = trace[j].r

(* The files of a row's destination folder *)
FilesUnder(r) == {p \in DOMAIN files : p[1] = r.owner /\ p[2] = r.id}

(* The classes whose strategy ends with the conditional delete *)
DeletingClasses == {"FileAsset", "DataApplication", "ExportableService",
                    "OtherApplication"}

(* The remote call that completes the archival step of a row *)
LastArchivalOp(r) ==
    CASE Classify(r.type) = "FileAsset" -> "download"
      [] Classify(r.type) = "DataApplication" -> "get_data"
      [] Classify(r.type) = "ExportableService" -> "export_download"
      [] Classify(r.type) = "OtherApplication" ->
            IF r.type = "Form" THEN "related_services" ELSE "resources_export"
      [] OTHER -> "none"

(* The artifacts the archival step of a row leaves when it completes *)
ArchivedOnDisk(r) ==
    CASE Classify(r.type) = "FileAsset" -> PayloadFile(r, r.id) \in DOMAIN files
      [] Classify(r.type) = "DataApplication" -> DataFile(r) \in DOMAIN files
      [] Classify(r.type) = "ExportableService" ->
            ExportFile(r) \in DOMAIN files /\ ErrorFile(r) \notin DOMAIN files
      [] Classify(r.type) = "OtherApplication" ->
            /\ DataFile(r) \in DOMAIN files
            /\ IF r.type = "Form" THEN RelFile(r) \in DOMAIN files
               ELSE ResourceFile(r) \in DOMAIN files
      [] OTHER -> FALSE

(* The cells that equal 'yes' when case is ignored, spelled out *)
YesInAnyCase == {c \in [1..3 -> {"y", "Y", "e", "E", "s", "S"}] :
                    /\ c[1] \in {"y", "Y"}
                    /\ c[2] \in {"e", "E"}
                    /\ c[3] \in {"s", "S"}}

-----------------------------------------------------------------------------
(* C1: archive before delete.  Every delete call belongs to a row of one of *)
(* the four deleting classes, comes after the successful last call of that  *)
(* row's archival step in the same visit, with no failed call of the visit  *)
(* before it, and the row's archived artifacts are on disk.                 *)
C1_ArchiveBeforeDelete ==
    \A k \in Events :
        trace[k].op = "delete" =>
            /\ Classify(RowOf(k).type) \in DeletingClasses
            /\ ArchivedOnDisk(RowOf(k))
            /\ \E j \in 1..(k - 1) :
                  /\ SameVisit(k, j)
                  /\ trace[j].op = LastArchivalOp(RowOf(k))
                  /\ trace[j].ok
            /\ \A j \in 1..(k - 1) : SameVisit(k, j) => trace[j].ok

(* C1 witness: a Form row was archived, manifest included, and then deleted *)
C1_Witness ==
    \E k \in Events :
        /\ trace[k].op = "delete"
        /\ trace[k].ok
        /\ RowOf(k).type = "Form"
        /\ RelFile(RowOf(k)) \in DOMAIN files

(* C2: a row whose archive cell is empty or is not 'yes' in any case has no *)
(* event at all: no folder creation and no remote call is made for it.      *)
C2_UnflaggedRowUntouched ==
    \A k \in Events : RowOf(k).archive \in YesInAnyCase

(* C2 witness: row 2 asks for delete but not for archiving, was passed over *)
(* with the archive root still empty, and row 3 was then archived.          *)
C2_Witness ==
    /\ Inventory[2].archive \notin YesInAnyCase
    /\ Inventory[2].delete = yes
    /\ Inventory[2].id \in remote
    /\ Inventory[3].archive = Yes
    /\ Inventory[3].id = Inventory[2].id
    /\ pc = "done"
    /\ rowState[3] = "ArchivedOnly"

(* C3: a run that follows a run that ended by itself, at its last row or on *)
(* an exception, has no event: it makes no folder, no remote call, no file. *)
C3_SecondRunDoesNothing ==
    \A k \in Events :
        trace[k].s > 1 => ended[trace[k].s - 1] = "interrupted"

(* C4: a remote operation that fails in a row before the last leaves the    *)
(* run going: the run is past that row and has not been ended by it.        *)
C4_FailureContained ==
    \A k \in Events :
        (/\ trace[k].s = sweep
         /\ ~trace[k].ok
         /\ trace[k].op # "get"
         /\ trace[k].r < inventory_row)
        => (pc # "aborted" /\ i > trace[k].r)

(* C5: after a failed export or a failed download of the export, the row's  *)
(* folder holds exactly one error file, '{type}_error.json', with one       *)
(* document of the three fields; no delete call was made for the row, and   *)
(* the run has gone on past the row.                                        *)
C5_ExportFailureRecorded ==
    \A k \in Events :
        (trace[k].op \in {"export", "export_download"} /\ ~trace[k].ok) =>
            LET r == RowOf(k)
            IN /\ {p \in FilesUnder(r) : p[3][2] = "_error.json"} = {ErrorFile(r)}
               /\ Len(files[ErrorFile(r)]) = 1
               /\ files[ErrorFile(r)][1][1] = "json"
               /\ DOMAIN files[ErrorFile(r)][1][2] =
                      {"itemname", "itemid", "download_error"}
               /\ files[ErrorFile(r)][1][2].itemid = r.id
               /\ files[ErrorFile(r)][1][2].itemname = Title(r.id)
               /\ \A j \in Events : SameVisit(k, j) => trace[j].op # "delete"
               /\ trace[k].s = sweep => i > trace[k].r

(* C5 witness: the export of row 2 failed although its delete cell says     *)
(* 'yes', and row 3 was processed afterwards.                               *)
C5_Witness ==
    \E k \in Events :
        /\ trace[k].op = "export"
        /\ ~trace[k].ok
        /\ trace[k].r = 2
        /\ RowOf(k).delete = deleteFlag
        /\ rowState[3] = "ArchivedOnly"

(* C6: a delete call that raises is the only delete call of its row, leaves *)
(* the archived artifacts in place and no error file, and the run has gone  *)
(* on past the row.                                                         *)
C6_DeleteFailureContained ==
    \A k \in Events :
        (trace[k].op = "delete" /\ ~trace[k].ok) =>
            LET r == RowOf(k)
            IN /\ \A j \in Events :
                     (SameVisit(k, j) /\ trace[j].op = "delete") => j = k
               /\ ArchivedOnDisk(r)
               /\ {p \in FilesUnder(r) : p[3][2] = "_error.json"} = {}
               /\ trace[k].s = sweep => i > trace[k].r

(* C6 witness: the delete of an exported service in row 2 failed, and row 3 *)
(* was then archived and deleted.                                           *)
C6_Witness ==
    \E k \in Events :
        /\ trace[k].op = "delete"
        /\ ~trace[k].ok
        /\ trace[k].r = 2
        /\ RowOf(k).type = "Feature Service"
        /\ rowState[3] = "ArchivedAndDeleted"

(* The visits that left an event: <<run, row>> *)
Visits == {<<trace[k].s, trace[k].r>> : k \in Events}

(* C7: resume gate.  A row visited while its item folder exists is passed   *)
(* over whatever its flags are, so it leaves no event: no folder, no remote *)
(* call, no file, no delete.  Hence all the events that concern one item    *)
(* folder belong to the one visit that made it: once the folder is made, in *)
(* a run that is then stopped or not, no later visit in that run or in a    *)
(* later run does anything for the row.                                     *)
C7_ResumeGate ==
    LET vs == Visits
    IN \A v, w \in vs :
          item_folder(Inventory[v[2]]) = item_folder(Inventory[w[2]]) => v = w

(* C7 witness: the first run was stopped right after it made the folder of  *)
(* row 2; the second run passed over row 2, whose item is still in the      *)
(* service and flagged for archiving and delete, and reached its end.       *)
C7_Witness ==
    /\ sweep = 2
    /\ ended = <<"interrupted", "done">>
    /\ \E k \in Events : trace[k] = [s |-> 1, r |-> 2, op |-> "mkdir_item", ok |-> TRUE]
    /\ \A k \in Events : trace[k].r = 2 => trace[k].op \in {"mkdir_owner", "mkdir_item"}
    /\ FilesUnder(Inventory[2]) = {}
    /\ Inventory[2].delete = deleteFlag
    /\ Inventory[2].id \in remote
    /\ rowState[2] = "Skipped-AlreadyProcessed"

TerminalStates == {"Skipped-NoFlag", "Skipped-AlreadyProcessed",
                   "Skipped-ItemMissing", "ArchivedAndDeleted", "ArchivedOnly",
                   "ArchivedWithExportError", "UnsupportedTypeRecorded"}

(* C8: the rows are visited in sheet order, none twice, and when the run is *)
(* over every row is in one of the seven terminal states.                   *)
C8_RowStateMachine ==
    /\ \A n \in RowNumbers :
          rowState[n] \in TerminalStates \cup {"Unvisited", "Dispatched"}
    /\ \A k, j \in Events :
          (k < j /\ trace[k].s = trace[j].s) => trace[k].r <= trace[j].r
    /\ ~Running => \A n \in RowNumbers : rowState[n] \in TerminalStates

UnsupportedTexts ==
    {"Unable to export this format. Please find source files for this service",
     "Export operation not supported for this data type"}

(* C9: a row whose item was found and whose type is a non-exportable        *)
(* service or in none of the five lists has exactly one file in its folder, *)
(* '{type}_error.json' with one document saying the export is unsupported,  *)
(* and its visit made no call but the get: no retrieval and no delete.      *)
C9_UnsupportedRecorded ==
    \A k \in Events :
        (/\ trace[k].op = "get"
         /\ trace[k].ok
         /\ RowOf(k).type \notin (lst_file_types \cup lst_data_apps
                \cup lst_export_services \cup lst_other_apps))
        => LET r == RowOf(k)
           IN /\ FilesUnder(r) = {FileIn(r, <<r.type, "_error.json">>)}
              /\ Len(files[ErrorFile(r)]) = 1
              /\ files[ErrorFile(r)][1][2].download_error \in UnsupportedTexts
              /\ \A j \in Events :
                    SameVisit(k, j) =>
                        trace[j].op \in {"mkdir_owner", "mkdir_item", "get"}

(* C9 witness: an image service and a type of no list, both flagged for     *)
(* delete and both found, were recorded as unsupported.                     *)
C9_Witness ==
    /\ Inventory[2].type = "Image Service"
    /\ Inventory[3].type = "form"
    /\ Inventory[2].delete = deleteFlag
    /\ Inventory[3].delete = deleteFlag
    /\ \A n \in RowNumbers :
          \E k \in Events : trace[k].r = n /\ trace[k].op = "get" /\ trace[k].ok
    /\ pc = "done"

(* C10: a row whose item the service does not return leaves its folder      *)
(* empty, the failed get is the last event of its visit, and the run has    *)
(* gone on past the row.                                                    *)
C10_MissingItemSkipped ==
    \A k \in Events :
        (trace[k].op = "get" /\ ~trace[k].ok) =>
            /\ FilesUnder(RowOf(k)) = {}
            /\ \A j \in Events : (j > k /\ SameVisit(k, j)) => FALSE
            /\ trace[k].s = sweep => i > trace[k].r

(* C10 witness: the items of a Form row and of a file row, both flagged for *)
(* delete, were missing; both rows were passed over and the run ended.      *)
C10_Witness ==
    /\ Inventory[2].type = "Form"
    /\ Inventory[3].type = "PDF"
    /\ Inventory[2].delete = deleteFlag
    /\ \A n \in RowNumbers :
          \E k \in Events : trace[k].r = n /\ trace[k].op = "get" /\ ~trace[k].ok
    /\ pc = "done"

-----------------------------------------------------------------------------
(* C11: when the inventory file is missing, or the portal reports another   *)
(* user id than the configured one, or answers the verification with an     *)
(* error, the process ends there: no row has been read, no folder or file   *)
(* exists under the archive root, and no get, download, export or delete    *)
(* call has been or will be made.                                           *)
PreconditionFailed ==
    \E k \in Events : trace[k].r = 0 /\ ~trace[k].ok

C11_PreconditionsAbort ==
    \A k \in Events :
        (trace[k].r = 0 /\ ~trace[k].ok) =>
            /\ k = Len(trace)
            /\ \A j \in 1..k : trace[j].r = 0
            /\ ~Running
            /\ pc \in {"exited", "aborted"}
            /\ dirs = {}
            /\ files = <<>>
            /\ \A n \in RowNumbers : rowState[n] = "Unvisited"

(* the portal answered with another user's id while a flagged row waits *)
C11_Witness ==
    /\ trace # <<>>
    /\ trace[Len(trace)].op = "verify"
    /\ ~trace[Len(trace)].ok
    /\ pc = "exited"
    /\ \E n \in RowNumbers : FlaggedForArchive(Inventory[n]) /\ Inventory[n].id \in remote

-----------------------------------------------------------------------------
(* The row of event k has been completed by the current run *)
RowFinished(k) == trace[k].s = sweep /\ i > trace[k].r

(* The delete calls made in the visit of event k *)
DeletesOf(k) == {j \in Events : SameVisit(k, j) /\ trace[j].op = "delete"}

(* C12 as stated: after a file-asset row whose download succeeded, the      *)
(* payload file is in the row's folder; the item is gone from the remote    *)
(* service when the delete flag equals the delete token, and is still there *)
(* when it does not.                                                        *)
C12_FileAssetOutcome ==
    \A k \in Events :
        (trace[k].op = "download" /\ trace[k].ok /\ RowFinished(k)) =>
            /\ PayloadFile(RowOf(k), RowOf(k).id) \in DOMAIN files
            /\ IF RowOf(k).delete = deleteFlag
               THEN RowOf(k).id \notin remote
               ELSE RowOf(k).id \in remote

(* C12, amended: after a file-asset row whose download succeeded, the       *)
(* payload file is in the row's folder; when the delete flag equals the     *)
(* delete token one delete call is made, and the item is gone if that call  *)
(* succeeded and still there if it failed; when the flag does not equal the *)
(* token no delete call is made and the item is still there.                *)
C12_FileAssetOutcomeWhenDeleteSucceeds ==
    \A k \in Events :
        (trace[k].op = "download" /\ trace[k].ok /\ RowFinished(k)) =>
            /\ PayloadFile(RowOf(k), RowOf(k).id) \in DOMAIN files
            /\ IF RowOf(k).delete = deleteFlag
               THEN /\ Cardinality(DeletesOf(k)) = 1
                    /\ \A j \in DeletesOf(k) :
                          IF trace[j].ok THEN RowOf(k).id \notin remote
                          ELSE RowOf(k).id \in remote
               ELSE /\ DeletesOf(k) = {}
                    /\ RowOf(k).id \in remote

(* a file row with delete 'yes' is finished, its delete call succeeded and  *)
(* the item is gone; the payload is on disk                                 *)
C12_Witness ==
    \E k \in Events :
        /\ trace[k].op = "download" /\ trace[k].ok /\ RowFinished(k)
        /\ RowOf(k).delete = deleteFlag
        /\ \E j \in DeletesOf(k) : trace[j].ok
        /\ RowOf(k).id \notin remote
        /\ PayloadFile(RowOf(k), RowOf(k).id) \in DOMAIN files

-----------------------------------------------------------------------------
(* The events of the visit of event k with operation op *)
OpsOf(k, op) == {j \in Events : SameVisit(k, j) /\ trace[j].op = op}

(* No later row has run since event k: the related-item lists are its row's *)
StillCurrent(k) == \A j \in Events : j > k => SameVisit(k, j)

(* The document most recently appended to a file *)
LastDoc(path) == files[path][Len(files[path])]

(* C13: when the Form branch of a row has completed, with n related         *)
(* services and m related data items, the manifest <type>_rel_services.json *)
(* holds 2n entries, an id entry and a URL entry under each index 1..n, the *)
(* m related payloads are downloaded into the row's folder, and no resource *)
(* export was called; a row of another type of the class calls the resource *)
(* export, writes no manifest and asks for no related items.                *)
C13_FormManifest ==
    \A k \in Events :
        /\ (trace[k].op = "related_services" /\ trace[k].ok /\ StillCurrent(k)) =>
              LET r == RowOf(k)
                  n == Len(rel_items_services)
                  m == Len(rel_items_data)
              IN /\ r.type = "Form"
                 /\ RelFile(r) \in DOMAIN files
                 /\ LastDoc(RelFile(r))[1] = "json"
                 /\ LET manifest == LastDoc(RelFile(r))[2]
                    IN /\ Cardinality(DOMAIN manifest) = 2 * n
                       /\ \A x \in 1..n :
                            /\ manifest[<<x, "relation ITEM ID for this form is">>]
                                   = <<"id", rel_items_services[x]>>
                            /\ manifest[<<x, "relation ITEM URL for this form is">>]
                                   = Url(rel_items_services[x])
                 /\ Cardinality({j \in OpsOf(k, "rel_download") : trace[j].ok}) = m
                 /\ \A x \in 1..m : PayloadFile(r, rel_items_data[x]) \in DOMAIN files
                 /\ OpsOf(k, "resources_export") = {}
        /\ (/\ trace[k].op = "get_data" /\ trace[k].ok
            /\ Classify(RowOf(k).type) = "OtherApplication"
            /\ RowOf(k).type # "Form"
            /\ RowFinished(k)) =>
              /\ \E j \in OpsOf(k, "resources_export") : trace[j].ok
              /\ ResourceFile(RowOf(k)) \in DOMAIN files
              /\ RelFile(RowOf(k)) \notin DOMAIN files
              /\ OpsOf(k, "related_data") = {}
              /\ OpsOf(k, "rel_download") = {}
              /\ OpsOf(k, "related_services") = {}

(* a Form with two related services and two related data items is archived *)
C13_Witness ==
    \E k \in Events :
        /\ trace[k].op = "related_services" /\ trace[k].ok /\ StillCurrent(k)
        /\ Len(rel_items_services) = 2
        /\ Len(rel_items_data) = 2
        /\ Cardinality(DOMAIN LastDoc(RelFile(RowOf(k)))[2]) = 4
        /\ RowFinished(k)

-----------------------------------------------------------------------------
(* The remote calls of the archival steps *)
ArchivalOps == {"download", "get_data", "export_download", "related_services",
                "resources_export"}

(* C14: a finished row of a deleting class whose archival step succeeded    *)
(* has exactly one delete call when its delete cell is exactly 'yes', and   *)
(* none otherwise; an empty cell or 'Yes' makes no call and no failure (the *)
(* row ends archived), although 'Yes' in the archive cell of the same row   *)
(* was accepted.  The related items of a Form are never deleted.            *)
C14_DeleteTrigger ==
    /\ RelatedIds \subseteq remote
    /\ \A k \in Events :
          (/\ trace[k].ok
           /\ RowFinished(k)
           /\ trace[k].op \in ArchivalOps
           /\ trace[k].op = LastArchivalOp(RowOf(k))
           /\ Classify(RowOf(k).type) \in DeletingClasses) =>
             IF RowOf(k).delete = yes
             THEN Cardinality(DeletesOf(k)) = 1
             ELSE /\ DeletesOf(k) = {}
                  /\ RowOf(k).id \in remote
                  /\ rowState[trace[k].r] = "ArchivedOnly"

(* a Form archived under archive 'Yes' whose delete cell 'Yes' deleted      *)
(* nothing, after its related items were downloaded                         *)
C14_Witness ==
    \E k \in Events :
        /\ trace[k].op = "related_services" /\ trace[k].ok /\ RowFinished(k)
        /\ RowOf(k).archive = Yes
        /\ RowOf(k).delete = Yes
        /\ OpsOf(k, "rel_download") # {}
        /\ DeletesOf(k) = {}
        /\ RowOf(k).id \in remote

-----------------------------------------------------------------------------
(* The five lists and their classes, in the order the loop body tests them *)
TypeLists == <<lst_file_types, lst_data_apps, lst_export_services,
               lst_other_services, lst_other_apps>>
ClassNames == <<"FileAsset", "DataApplication", "ExportableService",
                "NonExportableService", "OtherApplication">>

(* The strings classified: every member of a list, every type of the sheets *)
(* and two spellings that differ from a member in case only.                *)
TypeStrings ==
    UNION {TypeLists[x] : x \in DOMAIN TypeLists} \cup Types
        \cup {"form", "Feature service"}

(* The membership chain with its tests made in another order *)
ChainIn(order, t) ==
    LET hits == {x \in DOMAIN order : t \in TypeLists[order[x]]}
    IN IF hits = {} THEN "Unclassified"
       ELSE ClassNames[order[CHOOSE x \in hits : \A y \in hits : x <= y]]

ClassificationIsTotal ==
    /\ \A x, y \in DOMAIN TypeLists : x # y => TypeLists[x] \cap TypeLists[y] = {}
    /\ \A t \in TypeStrings :
          /\ \A order \in Permutations(DOMAIN TypeLists) :
                ChainIn(order, t) = Classify(t)
          /\ \A x \in DOMAIN TypeLists :
                Classify(t) = ClassNames[x] <=> t \in TypeLists[x]
          /\ Classify(t) = "Unclassified" <=>
                \A x \in DOMAIN TypeLists : t \notin TypeLists[x]
    /\ Classify("form") = "Unclassified"
    /\ Classify("Feature service") = "Unclassified"

(* The branch a row is in, by the statement the run has reached *)
BranchAt(p) ==
    CASE p = "download" -> "FileAsset"
      [] p = "get_data" -> "DataApplication"
      [] p \in {"export", "export_download"} -> "ExportableService"
      [] p \in {"app_get_data", "rel_data", "rel_download", "rel_services",
                "res_export"} -> "OtherApplication"
      [] OTHER -> "any"

(* C15: the five type lists are pairwise disjoint, so the chain of          *)
(* membership tests gives every type string exactly one of the six classes, *)
(* the one whose list holds the string exactly as spelled, in whatever      *)
(* order the tests are made; a string of no list ('form', 'Feature          *)
(* service') is Unclassified; and the branch a row runs is that class.      *)
C15_ClassificationTotal ==
    /\ ClassificationIsTotal
    /\ BranchAt(pc) # "any" =>
          \A x \in DOMAIN TypeLists :
              BranchAt(pc) = ClassNames[x] <=> Inventory[i].type \in TypeLists[x]
    /\ \A n \in RowNumbers :
          rowState[n] = "UnsupportedTypeRecorded" =>
              Inventory[n].type \notin lst_file_types \cup lst_data_apps
                  \cup lst_export_services \cup lst_other_apps

(* 'form' was recorded as a type without export, 'Form' is in its branch *)
C15_Witness ==
    /\ Inventory[2].type = "form"
    /\ rowState[2] = "UnsupportedTypeRecorded"
    /\ Inventory[3].type = "Form"
    /\ pc = "rel_data"

-----------------------------------------------------------------------------
(* C16: the item folder is made before the item is asked for; a row whose   *)
(* item was missing leaves that folder empty, and no later run touches the  *)
(* row again: it is skipped as already processed, the folder stays empty    *)
(* and no call is made for the item, even when an item of that id has been  *)
(* published in the meantime.                                               *)
C16_MissingItemNeverArchived ==
    \A k \in Events :
        trace[k].op = "get" =>
            /\ k > 1
            /\ trace[k - 1].op = "mkdir_item"
            /\ SameVisit(k, k - 1)
            /\ ~trace[k].ok =>
                  /\ item_folder(RowOf(k)) \in dirs
                  /\ FilesUnder(RowOf(k)) = {}
                  /\ \A v \in Visits :
                        item_folder(Inventory[v[2]]) = item_folder(RowOf(k)) =>
                            v = <<trace[k].s, trace[k].r>>
                  /\ (sweep > trace[k].s /\ i > trace[k].r) =>
                        rowState[trace[k].r] = "Skipped-AlreadyProcessed"

(* the item missing in the first run exists when the second run has ended;  *)
(* the row was skipped and its folder is still empty                        *)
C16_Witness ==
    \E k \in Events :
        /\ trace[k].op = "get" /\ ~trace[k].ok
        /\ trace[k].s = 1
        /\ sweep = 2
        /\ pc = "done"
        /\ RowOf(k).id \in remote
        /\ rowState[trace[k].r] = "Skipped-AlreadyProcessed"
        /\ FilesUnder(RowOf(k)) = {}

-----------------------------------------------------------------------------
(* The visits that made a call for the item of event k *)
VisitsOfItem(k) == {v \in Visits : Inventory[v[2]].id = RowOf(k).id}

(* C17: nothing is tried again.  Once a row has been dispatched, its visit  *)
(* is the only one that ever makes a call for its item: no later run issues *)
(* a get, download, export or delete for it, and the row is skipped as      *)
(* already processed.  So an export that failed keeps its error document    *)
(* and no export, and an item whose delete failed is still in the remote    *)
(* service, after any number of further runs.                               *)
C17_NeverRetried ==
    \A k \in Events :
        /\ (trace[k].op = "get" /\ trace[k].ok) =>
              /\ VisitsOfItem(k) = {<<trace[k].s, trace[k].r>>}
              /\ (sweep > trace[k].s /\ i > trace[k].r) =>
                    rowState[trace[k].r] = "Skipped-AlreadyProcessed"
        /\ (trace[k].op = "delete" /\ ~trace[k].ok) =>
              /\ RowOf(k).id \in remote
              /\ DeletesOf(k) = {k}
        /\ (trace[k].op \in {"export", "export_download"} /\ ~trace[k].ok) =>
              /\ ErrorFile(RowOf(k)) \in DOMAIN files
              /\ Len(files[ErrorFile(RowOf(k))]) = 1
              /\ ExportFile(RowOf(k)) \notin DOMAIN files
              /\ RowOf(k).id \in remote

(* the delete of the first run failed, the export of another row failed;    *)
(* the second run has ended and skipped both rows, the items are still      *)
(* remote                                                                   *)
C17_Witness ==
    /\ sweep = 2
    /\ pc = "done"
    /\ \E k \in Events :
          /\ trace[k].op = "delete" /\ ~trace[k].ok /\ trace[k].s = 1
          /\ RowOf(k).id \in remote
          /\ rowState[trace[k].r] = "Skipped-AlreadyProcessed"
    /\ \E k \in Events :
          /\ trace[k].op \in {"export", "export_download"} /\ ~trace[k].ok
          /\ trace[k].s = 1
          /\ rowState[trace[k].r] = "Skipped-AlreadyProcessed"

-----------------------------------------------------------------------------
(* The events a step adds to the history *)
NewEvents == {trace'[k] : k \in (Len(trace) + 1)..Len(trace')}

(* The current visit made the item folder of its row *)
FolderMadeByVisit ==
    \E k \in Events :
        trace[k].s = sweep /\ trace[k].r = i /\ trace[k].op = "mkdir_item"

(* What one step may do to the archive tree *)
TreeStep ==
    /\ dirs \subseteq dirs'
    /\ \A p \in DOMAIN files : p \in DOMAIN files' /\ files'[p] = files[p]
    /\ \A e \in NewEvents :
          /\ e.op = "mkdir_owner" => user_folder(Inventory[e.r]) \notin dirs
          /\ e.op = "mkdir_item" => item_folder(Inventory[e.r]) \notin dirs
    /\ \A d \in dirs' \ dirs :
          d \in {user_folder(Inventory[i]), item_folder(Inventory[i])}
    /\ \A p \in DOMAIN files' \ DOMAIN files :
          /\ <<p[1], p[2]>> = item_folder(Inventory[i])
          /\ item_folder(Inventory[i]) \in dirs
          /\ FolderMadeByVisit

====
